---- MODULE Spec2Model ----
(***************************************************************************)
(* AGV TaskOn verification API (src/main.py): the column locator, the      *)
(* sheet lookup, the four verification handlers and the event loop that    *)
(* runs them.                                                              *)
(*                                                                         *)
(* A Python str is a sequence of characters; a character is a one-letter   *)
(* string, or the name of its code point ("U+00E9") when it is not ASCII.  *)
(* A Python dict is a record with exactly the dict's keys.  None is the    *)
(* value None below, an unset environment variable is Unset.               *)
(***************************************************************************)
EXTENDS Integers, Sequences, FiniteSets, TLC

VARIABLES
    letter,                 \* SpecColumn: the argument of column_letter_to_index
    index,                  \* SpecColumn: what the call did (return / raise)
    sheets_service,         \* main.py:49-56  TRUE = built, FALSE = None
    AGENT_SHEET_ID,         \* main.py:42
    WALLET_SHEET_ID,        \* main.py:43
    AGENT_EMAIL_COLUMN,     \* main.py:44
    WALLET_ADDRESS_COLUMN,  \* main.py:45
    sheet,                  \* the rows the spreadsheet service holds ("values")
    request,                \* request[r]: the inbound request r
    pc,                     \* pc[r]: where the handler of request r stands
    loop,                   \* 0, or the request whose blocking call holds the event loop thread
    calls,                  \* calls[r]: network calls request r has issued
    api,                    \* api[r]: outcomes of the spreadsheet calls of request r, in order
    lookup,                 \* lookup[r]: what is_email_in_sheet / is_wallet_in_sheet did
    fetched,                \* fetched[r]: what client.get did
    response                \* response[r]: what the caller of request r received

columnVars == <<letter, index>>
configVars == <<sheets_service, AGENT_SHEET_ID, WALLET_SHEET_ID,
                AGENT_EMAIL_COLUMN, WALLET_ADDRESS_COLUMN, sheet>>
requestVars == <<request, pc, loop, calls, api, lookup, fetched, response>>
vars == <<letter, index, sheets_service, AGENT_SHEET_ID, WALLET_SHEET_ID,
          AGENT_EMAIL_COLUMN, WALLET_ADDRESS_COLUMN, sheet,
          request, pc, loop, calls, api, lookup, fetched, response>>

(***************************************************************************)
(* Bounds of the model.                                                    *)
(***************************************************************************)
MaxLetterLen == 2
MaxRows == 3
MaxCols == 1
NReq == 2

(***************************************************************************)
(* Python str methods, on the characters the model uses.                   *)
(***************************************************************************)
ascii_uppercase == <<"A", "B", "C", "D", "E", "F", "G", "H", "I", "J", "K", "L", "M",
                     "N", "O", "P", "Q", "R", "S", "T", "U", "V", "W", "X", "Y", "Z">>
ascii_lowercase == <<"a", "b", "c", "d", "e", "f", "g", "h", "i", "j", "k", "l", "m",
                     "n", "o", "p", "q", "r", "s", "t", "u", "v", "w", "x", "y", "z">>
digits == {"0", "1", "2", "3", "4", "5", "6", "7", "8", "9"}
whitespace == {" ", "\t", "\n"}

\* Two letters outside A..Z (e acute, lower and upper case) and a dash.
E_ACUTE_LOWER == "U+00E9"
E_ACUTE_UPPER == "U+00C9"
EM_DASH == "U+2014"

Range(s) == {s[i] : i \in 1..Len(s)}
IndexIn(s, c) == CHOOSE i \in 1..Len(s) : s[i] = c

\* str.isalpha() of one character: Unicode letters, not only A..Z.
isalpha(c) ==
    c \in Range(ascii_uppercase) \cup Range(ascii_lowercase) \cup {E_ACUTE_LOWER, E_ACUTE_UPPER}

\* str.upper() / str.lower() of one character.
upper_char(c) ==
    IF c \in Range(ascii_lowercase) THEN ascii_uppercase[IndexIn(ascii_lowercase, c)]
    ELSE IF c = E_ACUTE_LOWER THEN E_ACUTE_UPPER
    ELSE c

lower_char(c) ==
    IF c \in Range(ascii_uppercase) THEN ascii_lowercase[IndexIn(ascii_uppercase, c)]
    ELSE IF c = E_ACUTE_UPPER THEN E_ACUTE_LOWER
    ELSE c

upper(s) == [i \in 1..Len(s) |-> upper_char(s[i])]
lower(s) == [i \in 1..Len(s) |-> lower_char(s[i])]

\* str.strip(): leading and trailing whitespace removed.
RECURSIVE lstrip(_)
lstrip(s) == IF s # <<>> /\ Head(s) \in whitespace THEN lstrip(Tail(s)) ELSE s

RECURSIVE rstrip(_)
rstrip(s) ==
    IF s # <<>> /\ s[Len(s)] \in whitespace THEN rstrip(SubSeq(s, 1, Len(s) - 1)) ELSE s

strip(s) == rstrip(lstrip(s))

\* ord() of a letter.
ord(c) ==
    CASE c \in Range(ascii_uppercase) -> 64 + IndexIn(ascii_uppercase, c)
      [] c \in Range(ascii_lowercase) -> 96 + IndexIn(ascii_lowercase, c)
      [] c = E_ACUTE_UPPER -> 201
      [] c = E_ACUTE_LOWER -> 233

\* "pattern in text": substring containment.
Contains(text, pattern) ==
    \E i \in 0..(Len(text) - Len(pattern)) : SubSeq(text, i + 1, i + Len(pattern)) = pattern

(***************************************************************************)
(* What a call did: it returned a value or it raised.                      *)
(***************************************************************************)
Return(v) == [kind |-> "return", value |-> v]
Raise(e) == [kind |-> "raise", exc |-> e]
NotCalled == [kind |-> "none"]

(***************************************************************************)
(* Column Locator: column_letter_to_index (main.py:58-70).                 *)
(***************************************************************************)
\* lines 64-66: index = index * 26 + (ord(char) - ord('A') + 1), left to right
RECURSIVE column_accumulate(_, _)
column_accumulate(acc, chars) ==
    IF chars = <<>> THEN acc
    ELSE column_accumulate(acc * 26 + (ord(Head(chars)) - ord("A") + 1), Tail(chars))

column_letter_to_index(l) ==
    LET stripped == strip(upper(l))
    IN  IF stripped = <<>> \/ ~(\A i \in 1..Len(stripped) : isalpha(stripped[i]))
        THEN Raise("ValueError")
        ELSE Return(column_accumulate(0, stripped) - 1)

(***************************************************************************)
(* SpecColumn: column_letter_to_index applied to every string of at most   *)
(* MaxLetterLen characters of ColumnChars.                                 *)
(***************************************************************************)
ColumnChars == {"A", "B", "Z", "F", "S", "f", " ", "1", EM_DASH, E_ACUTE_LOWER}

Strings(chars, n) == UNION {[1..k -> chars] : k \in 0..n}

Unset == ""
None == "<None>"

NoRequest == [endpoint |-> "none"]
NoResponse == [kind |-> "none"]
Requests == 1..NReq

IdleRequests ==
    /\ request = [r \in Requests |-> NoRequest]
    /\ pc = [r \in Requests |-> "absent"]
    /\ loop = 0
    /\ calls = [r \in Requests |-> [sheets |-> 0, http |-> 0]]
    /\ api = [r \in Requests |-> <<>>]
    /\ lookup = [r \in Requests |-> NotCalled]
    /\ fetched = [r \in Requests |-> NotCalled]
    /\ response = [r \in Requests |-> NoResponse]

DefaultConfig ==
    /\ sheets_service = FALSE
    /\ AGENT_SHEET_ID = Unset
    /\ WALLET_SHEET_ID = Unset
    /\ AGENT_EMAIL_COLUMN = <<"F">>
    /\ WALLET_ADDRESS_COLUMN = <<"S">>
    /\ sheet = <<>>

InitColumn ==
    /\ letter \in Strings(ColumnChars, MaxLetterLen)
    /\ index = NotCalled
    /\ DefaultConfig
    /\ IdleRequests

ConvertColumn ==
    /\ index = NotCalled
    /\ index' = column_letter_to_index(letter)
    /\ UNCHANGED <<letter, configVars, requestVars>>

NextColumn == ConvertColumn

SpecColumn == InitColumn /\ [][NextColumn]_vars

(***************************************************************************)
(* The reference the column locator is compared with: bijective base 26    *)
(* over A..Z only, digit values A=1..Z=26, most significant digit first.   *)
(***************************************************************************)
RECURSIVE Pow26(_)
Pow26(n) == IF n = 0 THEN 1 ELSE 26 * Pow26(n - 1)

RECURSIVE SumTo(_, _)
SumTo(f, n) == IF n = 0 THEN 0 ELSE f[n] + SumTo(f, n - 1)

IsAZ(s) == s # <<>> /\ \A i \in 1..Len(s) : s[i] \in Range(ascii_uppercase)

Bijective26(s) ==
    SumTo([i \in 1..Len(s) |-> IndexIn(ascii_uppercase, s[i]) * Pow26(Len(s) - i)], Len(s))

Normalised(s) == strip(upper(s))

\* C1: on every input column_letter_to_index returns the bijective base-26
\* value minus 1 when the trimmed, case-folded input is a non-empty sequence
\* of letters A..Z, and raises the invalid-column error on every other input.
C1_ColumnIndexMatchesReference ==
    index # NotCalled =>
        IF IsAZ(Normalised(letter))
        THEN index = Return(Bijective26(Normalised(letter)) - 1)
        ELSE index = Raise("ValueError")

\* The part of C1 the code does satisfy: inputs made of ASCII characters only.
IsAscii(s) == \A i \in 1..Len(s) : s[i] \notin {E_ACUTE_LOWER, E_ACUTE_UPPER, EM_DASH}

ColumnIndexMatchesReferenceOnAscii ==
    (index # NotCalled /\ IsAscii(letter)) =>
        IF IsAZ(Normalised(letter))
        THEN index = Return(Bijective26(Normalised(letter)) - 1)
        ELSE index = Raise("ValueError")

(***************************************************************************)
(* Requests.  A POST body is absent, not JSON, JSON that is no object      *)
(* (an array, null) or an object; of an object only the handler's required *)
(* key matters: it is missing, null, a number or a string.  /verify-wallet *)
(* takes its address from the query string: missing or a string.           *)
(***************************************************************************)
AGENT == "/verify-agent-application"
CONTENT == "/verify-content"
SHARE == "/verify-share-nft"
WALLET == "/verify-wallet"

Missing == [t |-> "missing"]
Null == [t |-> "null"]
Number(n) == [t |-> "number", n |-> n]
String(s) == [t |-> "string", s |-> s]

NoBody == [json |-> "absent"]
NotJson == [json |-> "invalid"]
JsonArray == [json |-> "array"]
JsonNull == [json |-> "null"]
Object(v) == [json |-> "object", value |-> v]
Query(v) == [json |-> "query", value |-> v]

Envelope(result, error) == [kind |-> "envelope", result |-> result, error |-> error]
Unhandled(exc) == [kind |-> "exception", exc |-> exc]
Proceed(v) == [kind |-> "proceed", value |-> v]

\* await request.json() (lines 179-183, 212-216, 250-254)
request_json(body) ==
    IF body.json \in {"absent", "invalid"} THEN Raise("JSONDecodeError") ELSE Return(body)

\* (body.get(key) or "").strip() (lines 185, 218, 256): an array or null has
\* no get, a truthy number has no strip.
required_field(body) ==
    IF body.json # "object" THEN Raise("AttributeError")
    ELSE CASE body.value.t \in {"missing", "null"} -> Return(<<>>)
           [] body.value.t = "number" ->
                IF body.value.n = 0 THEN Return(<<>>) ELSE Raise("AttributeError")
           [] body.value.t = "string" -> Return(strip(body.value.s))

\* lines 179-188, 212-221, 256-259: the JSON body, then the required key.
validate_body(body, missing_error) ==
    IF request_json(body).kind = "raise"
    THEN Envelope([isValid |-> FALSE], "Invalid JSON body")
    ELSE LET field == required_field(body)
         IN  IF field.kind = "raise" THEN Unhandled(field.exc)
             ELSE IF field.value = <<>> THEN Envelope([isValid |-> FALSE], missing_error)
             ELSE Proceed(field.value)

(***************************************************************************)
(* Sheet Lookup: is_email_in_sheet (lines 76-123) and is_wallet_in_sheet   *)
(* (lines 125-172).  The two spreadsheet calls are steps of the handler    *)
(* (below); the rest of each function is here.                             *)
(***************************************************************************)
\* lines 77-82
is_email_in_sheet_guard(service, sheet_id) ==
    IF ~service THEN Return(FALSE)
    ELSE IF sheet_id = Unset THEN Return(FALSE)
    ELSE Proceed(sheet_id)

\* lines 126-131
is_wallet_in_sheet_guard(service, sheet_id) ==
    IF ~service THEN Return(FALSE)
    ELSE IF sheet_id = Unset THEN Return(FALSE)
    ELSE Proceed(sheet_id)

\* row[column_index]: a list index out of range raises
list_item(row, i) == IF i + 1 \in DOMAIN row THEN Return(row[i + 1]) ELSE Raise("IndexError")

\* Mutant of email_row_matches: the length test of line 113 left out.
email_row_matches_unguarded(row, column_index, email_lower) ==
    LET cell == list_item(row, column_index)
    IN  IF cell.kind = "raise" THEN cell
        ELSE Return(lower(strip(cell.value)) = email_lower)

\* line 113: len(row) > column_index and row[column_index].strip().lower() == email_lower
email_row_matches(row, column_index, email_lower) ==
    IF ~(Len(row) > column_index) THEN Return(FALSE)
    ELSE LET cell == list_item(row, column_index)
         IN  IF cell.kind = "raise" THEN cell
             ELSE Return(lower(strip(cell.value)) = email_lower)

\* line 162
wallet_row_matches(row, column_index, address_lower) ==
    IF ~(Len(row) > column_index) THEN Return(FALSE)
    ELSE LET cell == list_item(row, column_index)
         IN  IF cell.kind = "raise" THEN cell
             ELSE Return(lower(strip(cell.value)) = address_lower)

\* lines 112-117, 161-166: the for loop ends at the first row that matches
\* (return True) or raises; with neither, return False.
for_rows(outcomes) ==
    LET stops == {i \in 1..Len(outcomes) :
                    outcomes[i].kind = "raise" \/ outcomes[i] = Return(TRUE)}
    IN  IF stops = {} THEN Return(FALSE)
        ELSE outcomes[CHOOSE i \in stops : \A j \in stops : i <= j]

\* Mutant of is_email_in_sheet_scan: the header row is scanned too
\* ("for row in values" instead of "values[1:]").
is_email_in_sheet_scan_from_header(email, column_letter, values) ==
    LET email_lower == lower(strip(email))
    IN  IF values = <<>> THEN Return(FALSE)
        ELSE LET column_index == column_letter_to_index(column_letter)
             IN  IF column_index.kind = "raise" THEN Return(FALSE)
                 ELSE IF column_index.value >= Len(values[1]) THEN Return(FALSE)
                 ELSE for_rows([i \in 1..Len(values) |->
                        email_row_matches(values[i], column_index.value, email_lower)])

\* lines 84, 95-117: after both spreadsheet calls returned
is_email_in_sheet_scan(email, column_letter, values) ==
    LET email_lower == lower(strip(email))
    IN  IF values = <<>> THEN Return(FALSE)
        ELSE LET column_index == column_letter_to_index(column_letter)
             IN  IF column_index.kind = "raise" THEN Return(FALSE)
                 ELSE IF column_index.value >= Len(values[1]) THEN Return(FALSE)
                 ELSE for_rows([i \in 1..(Len(values) - 1) |->
                        email_row_matches(values[i + 1], column_index.value, email_lower)])

\* lines 133, 144-166
is_wallet_in_sheet_scan(address, column_letter, values) ==
    LET address_lower == lower(strip(address))
    IN  IF values = <<>> THEN Return(FALSE)
        ELSE LET column_index == column_letter_to_index(column_letter)
             IN  IF column_index.kind = "raise" THEN Return(FALSE)
                 ELSE IF column_index.value >= Len(values[1]) THEN Return(FALSE)
                 ELSE for_rows([i \in 1..(Len(values) - 1) |->
                        wallet_row_matches(values[i + 1], column_index.value, address_lower)])

\* Mutant of is_email_in_sheet_except: the exception is logged and swallowed
\* ("return False" instead of "raise").
is_email_in_sheet_except_swallow(exc) == Return(FALSE)

\* lines 118-123, 167-172: both except clauses log and re-raise
is_email_in_sheet_except(exc) == Raise(exc)
is_wallet_in_sheet_except(exc) == Raise(exc)

(***************************************************************************)
(* The sheet handlers: verify_agent_application (lines 174-205) and        *)
(* verify_wallet (lines 287-311).                                          *)
(***************************************************************************)
\* lines 189-194
verify_agent_application_config(service, sheet_id) ==
    IF ~service
    THEN Envelope([isValid |-> FALSE], "Google Sheets integration not configured")
    ELSE IF sheet_id = Unset
    THEN Envelope([isValid |-> FALSE], "Agent sheet ID not configured")
    ELSE NoResponse

\* Mutant of verify_wallet_config: the two configuration tests left out.
verify_wallet_config_unchecked(service, sheet_id) == NoResponse

\* lines 295-300
verify_wallet_config(service, sheet_id) ==
    IF ~service
    THEN Envelope([isValid |-> FALSE], "Google Sheets integration not configured")
    ELSE IF sheet_id = Unset
    THEN Envelope([isValid |-> FALSE], "Wallet sheet ID not configured")
    ELSE NoResponse

\* lines 292-294: "if not address" (None or ""); the address is not stripped
verify_wallet_address(query) ==
    IF query.value.t = "missing" \/ query.value.s = <<>>
    THEN Envelope([isValid |-> FALSE], "Missing 'address' parameter")
    ELSE Proceed(query.value.s)

\* lines 196-205: what the handler answers to what the lookup did
verify_agent_application_result(email, outcome) ==
    IF outcome.kind = "return"
    THEN Envelope([isValid |-> outcome.value,
                   details |-> [email |-> email, found |-> outcome.value]], None)
    ELSE IF outcome.exc = "HttpError"
    THEN Envelope([isValid |-> FALSE], "Google Sheets API error")
    ELSE Envelope([isValid |-> FALSE], "Error verifying email")

\* lines 302-311
verify_wallet_result(address, outcome) ==
    IF outcome.kind = "return"
    THEN Envelope([isValid |-> outcome.value,
                   details |-> [wallet |-> address, found |-> outcome.value]], None)
    ELSE IF outcome.exc = "HttpError"
    THEN Envelope([isValid |-> FALSE], "Google Sheets API error")
    ELSE Envelope([isValid |-> FALSE], "Error verifying wallet")

\* The handler's validation, up to the call of the lookup.
SheetValidate(r) ==
    IF request[r].endpoint = AGENT
    THEN LET v == validate_body(request[r].body, "Missing email")
         IN  IF v.kind # "proceed" THEN v
             ELSE LET c == verify_agent_application_config(sheets_service, AGENT_SHEET_ID)
                  IN  IF c # NoResponse THEN c ELSE v
    ELSE LET v == verify_wallet_address(request[r].body)
         IN  IF v.kind # "proceed" THEN v
             ELSE LET c == verify_wallet_config(sheets_service, WALLET_SHEET_ID)
                  IN  IF c # NoResponse THEN c ELSE v

\* The argument the handler passes to the lookup (email, address).
SheetKey(r) == SheetValidate(r).value

SheetGuard(r) ==
    IF request[r].endpoint = AGENT
    THEN is_email_in_sheet_guard(sheets_service, AGENT_SHEET_ID)
    ELSE is_wallet_in_sheet_guard(sheets_service, WALLET_SHEET_ID)

SheetScan(r, values) ==
    IF request[r].endpoint = AGENT
    THEN is_email_in_sheet_scan(SheetKey(r), AGENT_EMAIL_COLUMN, values)
    ELSE is_wallet_in_sheet_scan(SheetKey(r), WALLET_ADDRESS_COLUMN, values)

SheetExcept(r, exc) ==
    IF request[r].endpoint = AGENT
    THEN is_email_in_sheet_except(exc)
    ELSE is_wallet_in_sheet_except(exc)

SheetResult(r, outcome) ==
    IF request[r].endpoint = AGENT
    THEN verify_agent_application_result(SheetKey(r), outcome)
    ELSE verify_wallet_result(SheetKey(r), outcome)

\* The handler of r returns (or an exception leaves it): the event loop is free.
Finish(r, resp) ==
    /\ response' = [response EXCEPT ![r] = resp]
    /\ pc' = [pc EXCEPT ![r] = "done"]
    /\ loop' = 0

\* The lookup ended with `outcome`; the handler answers.
FinishLookup(r, outcome) ==
    /\ lookup' = [lookup EXCEPT ![r] = outcome]
    /\ Finish(r, SheetResult(r, outcome))

\* A sheet handler runs from the request to spreadsheets().get(...).execute()
\* (line 87 / 136).  execute() is a synchronous call inside "async def": it
\* blocks the event loop thread until it returns.
SheetHandler(r) ==
    /\ pc[r] = "received"
    /\ loop = 0
    /\ LET v == SheetValidate(r)
       IN  IF v.kind # "proceed"
           THEN /\ Finish(r, v)
                /\ UNCHANGED <<calls, api, lookup>>
           ELSE LET g == SheetGuard(r)
                IN  IF g.kind = "return"
                    THEN /\ FinishLookup(r, g)
                         /\ UNCHANGED <<calls, api>>
                    ELSE /\ pc' = [pc EXCEPT ![r] = "sheets_get"]
                         /\ loop' = r
                         /\ calls' = [calls EXCEPT ![r].sheets = @ + 1]
                         /\ UNCHANGED <<api, lookup, response>>
    /\ UNCHANGED <<columnVars, configVars, request, fetched>>

verify_agent_application(r) ==
    /\ request[r].endpoint = AGENT
    /\ SheetHandler(r)

verify_wallet(r) ==
    /\ request[r].endpoint = WALLET
    /\ SheetHandler(r)

\* What a spreadsheet API call can do: return, raise HttpError (authentication,
\* quota, not found), or raise a transport error.
ApiOutcomes == {"ok", "HttpError", "TransportError"}

\* spreadsheets().get(...).execute() returns or raises (line 87 / 136); on
\* return the values call is issued at once (lines 91-94 / 140-143).
spreadsheets_get(r) ==
    /\ pc[r] = "sheets_get"
    /\ \E out \in ApiOutcomes :
        /\ api' = [api EXCEPT ![r] = Append(@, out)]
        /\ IF out = "ok"
           THEN /\ pc' = [pc EXCEPT ![r] = "values_get"]
                /\ calls' = [calls EXCEPT ![r].sheets = @ + 1]
                /\ UNCHANGED <<loop, lookup, response>>
           ELSE /\ FinishLookup(r, SheetExcept(r, out))
                /\ UNCHANGED calls
    /\ UNCHANGED <<columnVars, configVars, request, fetched>>

\* spreadsheets().values().get(...).execute() returns the sheet's rows or
\* raises; the scan and the handler's answer follow without suspension.
spreadsheets_values_get(r) ==
    /\ pc[r] = "values_get"
    /\ \E out \in ApiOutcomes :
        /\ api' = [api EXCEPT ![r] = Append(@, out)]
        /\ IF out = "ok"
           THEN LET scanned == SheetScan(r, sheet)
                IN  FinishLookup(r, IF scanned.kind = "raise"
                                    THEN SheetExcept(r, scanned.exc) ELSE scanned)
           ELSE FinishLookup(r, SheetExcept(r, out))
    /\ UNCHANGED <<columnVars, configVars, request, fetched, calls>>

(***************************************************************************)
(* The content handlers: verify_content (lines 207-243) and                *)
(* verify_share_nft (lines 245-285).                                       *)
(***************************************************************************)
\* line 73: re.search(r"/status/(\d+)", url): the leftmost "/status/" that a
\* digit follows, and the digits after it.  None is the empty sequence (a
\* match holds at least one digit).
RECURSIVE leading_digits(_)
leading_digits(s) ==
    IF s # <<>> /\ Head(s) \in digits THEN <<Head(s)>> \o leading_digits(Tail(s)) ELSE <<>>

extract_tweet_id_from_url(url) ==
    LET prefix == <<"/", "s", "t", "a", "t", "u", "s", "/">>
        starts == {i \in 1..Len(url) :
                     /\ i + Len(prefix) <= Len(url)
                     /\ SubSeq(url, i, i + Len(prefix) - 1) = prefix
                     /\ url[i + Len(prefix)] \in digits}
    IN  IF starts = {} THEN <<>>
        ELSE LET first == CHOOSE i \in starts : \A j \in starts : i <= j
             IN  leading_digits(SubSeq(url, first + Len(prefix), Len(url)))

\* lines 261-264
verify_share_nft_tweet_id(tweet_url) ==
    IF extract_tweet_id_from_url(tweet_url) = <<>>
    THEN Envelope([isValid |-> FALSE], "Invalid X post URL")
    ELSE Proceed(tweet_url)

\* Mutant of verify_content_result: the text is not lowercased (line 230).
verify_content_result_no_lower(got) ==
    IF got.kind = "raise" THEN Envelope([isValid |-> FALSE], "Fetch error")
    ELSE IF got.value.status_code >= 400
    THEN Envelope([isValid |-> FALSE,
                   details |-> [reason |-> "unreachable",
                                status_code |-> got.value.status_code]], None)
    ELSE LET text == got.value.text
             hasAGV == Contains(text, <<"a", "g", "v">>)
             hasTREE == Contains(text, <<"t", "r", "e", "e">>)
             hasRWA == Contains(text, <<"r", "w", "a">>)
             hasTag == Contains(text, <<"@", "a", "g", "v", "p", "r", "o", "t", "o", "c", "o", "l">>)
             is_valid == hasAGV /\ hasTREE /\ hasRWA /\ hasTag
         IN  Envelope([isValid |-> is_valid,
                       details |-> [hasAGV |-> hasAGV, hasTREE |-> hasTREE,
                                    hasRWA |-> hasRWA, hasTag |-> hasTag]], None)

\* lines 227-243: what verify_content answers to what client.get did
verify_content_result(got) ==
    IF got.kind = "raise" THEN Envelope([isValid |-> FALSE], "Fetch error")
    ELSE IF got.value.status_code >= 400
    THEN Envelope([isValid |-> FALSE,
                   details |-> [reason |-> "unreachable",
                                status_code |-> got.value.status_code]], None)
    ELSE LET text == lower(got.value.text)
             hasAGV == Contains(text, <<"a", "g", "v">>)
             hasTREE == Contains(text, <<"t", "r", "e", "e">>)
             hasRWA == Contains(text, <<"r", "w", "a">>)
             hasTag == Contains(text, <<"@", "a", "g", "v", "p", "r", "o", "t", "o", "c", "o", "l">>)
             is_valid == hasAGV /\ hasTREE /\ hasRWA /\ hasTag
         IN  Envelope([isValid |-> is_valid,
                       details |-> [hasAGV |-> hasAGV, hasTREE |-> hasTREE,
                                    hasRWA |-> hasRWA, hasTag |-> hasTag]], None)

\* Mutant of verify_share_nft_result: "status_code > 400" (line 270).
verify_share_nft_result_above_400(got) ==
    IF got.kind = "raise" THEN Envelope([isValid |-> FALSE], "Verification error")
    ELSE IF got.value.status_code > 400
    THEN Envelope([isValid |-> FALSE,
                   details |-> [reason |-> "unreachable",
                                status_code |-> got.value.status_code]], None)
    ELSE LET text == lower(got.value.text)
             has_hashtags == \A tag \in {<<"#", "a", "g", "v">>, <<"#", "t", "r", "e", "e">>,
                                         <<"#", "r", "w", "a">>} : Contains(text, tag)
             has_mention == Contains(text, <<"@", "a", "g", "v", "p", "r", "o", "t", "o", "c", "o", "l">>)
             has_media == has_hashtags /\ has_mention
             is_valid == has_hashtags /\ has_mention /\ has_media
         IN  Envelope([isValid |-> is_valid,
                       details |-> [has_hashtags |-> has_hashtags, has_mention |-> has_mention,
                                    has_media |-> has_media]], None)

\* lines 270-285
verify_share_nft_result(got) ==
    IF got.kind = "raise" THEN Envelope([isValid |-> FALSE], "Verification error")
    ELSE IF got.value.status_code >= 400
    THEN Envelope([isValid |-> FALSE,
                   details |-> [reason |-> "unreachable",
                                status_code |-> got.value.status_code]], None)
    ELSE LET text == lower(got.value.text)
             has_hashtags == \A tag \in {<<"#", "a", "g", "v">>, <<"#", "t", "r", "e", "e">>,
                                         <<"#", "r", "w", "a">>} : Contains(text, tag)
             has_mention == Contains(text, <<"@", "a", "g", "v", "p", "r", "o", "t", "o", "c", "o", "l">>)
             has_media == has_hashtags /\ has_mention
             is_valid == has_hashtags /\ has_mention /\ has_media
         IN  Envelope([isValid |-> is_valid,
                       details |-> [has_hashtags |-> has_hashtags, has_mention |-> has_mention,
                                    has_media |-> has_media]], None)

ContentValidate(r) ==
    IF request[r].endpoint = CONTENT
    THEN validate_body(request[r].body, "Missing 'link' in request body")
    ELSE LET v == validate_body(request[r].body, "Missing 'tweetUrl' in request body")
         IN  IF v.kind # "proceed" THEN v ELSE verify_share_nft_tweet_id(v.value)

\* A content handler runs from the request to "await client.get(...)" (line
\* 226 / 269); the await hands the event loop back.
ContentHandler(r) ==
    /\ pc[r] = "received"
    /\ loop = 0
    /\ LET v == ContentValidate(r)
       IN  IF v.kind # "proceed"
           THEN /\ Finish(r, v)
                /\ UNCHANGED calls
           ELSE /\ pc' = [pc EXCEPT ![r] = "http_get"]
                /\ calls' = [calls EXCEPT ![r].http = @ + 1]
                /\ UNCHANGED <<loop, response>>
    /\ UNCHANGED <<columnVars, configVars, request, api, lookup, fetched>>

verify_content(r) ==
    /\ request[r].endpoint = CONTENT
    /\ ContentHandler(r)

verify_share_nft(r) ==
    /\ request[r].endpoint = SHARE
    /\ ContentHandler(r)

\* The pages a URL may hold, and the status codes it may answer with.
PAGE_SPEC_EXAMPLE ==
    <<"#", "A", "G", "V", " ", "#", "T", "r", "e", "e", " ", "#", "R", "W", "A", " ",
      ".", ".", ".", " ", "A", "G", "V", " ", "P", "r", "o", "t", "o", "c", "o", "l",
      " ", "i", "s", " ", "g", "r", "e", "a", "t">>
PAGE_MISSING_RWA ==
    <<"#", "A", "G", "V", " ", "#", "T", "r", "e", "e", " ", ".", ".", ".", " ",
      "A", "G", "V", " ", "P", "r", "o", "t", "o", "c", "o", "l",
      " ", "i", "s", " ", "g", "r", "e", "a", "t">>
PAGE_WITH_MENTION ==
    <<"#", "A", "G", "V", " ", "#", "T", "r", "e", "e", " ", "#", "R", "W", "A", " ",
      "@", "A", "G", "V", "P", "r", "o", "t", "o", "c", "o", "l">>
PAGE_NO_HASHTAGS ==
    <<"a", "g", "v", " ", "t", "r", "e", "e", " ", "r", "w", "a", " ",
      "@", "a", "g", "v", "p", "r", "o", "t", "o", "c", "o", "l">>
PAGE_MENTION_NO_TREE ==
    <<"#", "a", "g", "v", " ", "#", "r", "w", "a", " ",
      "@", "a", "g", "v", "p", "r", "o", "t", "o", "c", "o", "l">>
Pages == {<<>>, PAGE_SPEC_EXAMPLE, PAGE_MISSING_RWA, PAGE_WITH_MENTION,
          PAGE_NO_HASHTAGS, PAGE_MENTION_NO_TREE}
StatusCodes == {200, 399, 400, 404, 503}

\* What "await client.get(url)" with timeout=15 can do: a response, or an
\* exception (connection error; timeout after 15 s).
FetchOutcomes ==
    {Return([status_code |-> c, text |-> t]) : c \in StatusCodes, t \in Pages}
        \cup {Raise("ConnectError"), Raise("TimeoutException")}

\* client.get completes and the handler resumes on the event loop, to its end.
client_get(r) ==
    /\ pc[r] = "http_get"
    /\ loop = 0
    /\ \E got \in FetchOutcomes :
        /\ fetched' = [fetched EXCEPT ![r] = got]
        /\ Finish(r, IF request[r].endpoint = CONTENT
                     THEN verify_content_result(got) ELSE verify_share_nft_result(got))
    /\ UNCHANGED <<columnVars, configVars, request, calls, api, lookup>>

(***************************************************************************)
(* Inputs.                                                                 *)
(***************************************************************************)
STORED_EMAIL == <<" ", "f", "o", "o", "@", "b", "a", "r", ".", "c", "o", "m">>
TARGET_EMAIL == <<"F", "o", "o", "@", "B", "a", "r", ".", "c", "o", "m", " ">>
OTHER_VALUE == <<"x">>
BLANK == <<" ">>
LINK == <<"h", "t", "t", "p", ":", "/", "/", "e", ".", "c", "o", "m", "/", "p">>
URL_WITH_STATUS ==
    <<"h", "t", "t", "p", "s", ":", "/", "/", "x", ".", "c", "o", "m", "/",
      "u", "s", "e", "r", "/", "s", "t", "a", "t", "u", "s", "/", "1", "2", "3", "4", "5">>
URL_NO_STATUS ==
    <<"h", "t", "t", "p", "s", ":", "/", "/", "x", ".", "c", "o", "m", "/", "u", "s", "e", "r">>
URL_STATUS_NO_DIGITS ==
    <<"h", "t", "t", "p", "s", ":", "/", "/", "x", ".", "c", "o", "m", "/",
      "u", "s", "e", "r", "/", "s", "t", "a", "t", "u", "s", "/", "m", "e">>

\* Cells of the sheet, and the rows and tables made of them: a row holds at
\* most MaxCols cells (trailing empty cells are absent), a table at most
\* MaxRows rows, the header first.
Cells == {STORED_EMAIL, OTHER_VALUE}
Rows == UNION {[1..n -> Cells] : n \in 0..MaxCols}
Tables == UNION {[1..n -> Rows] : n \in 0..MaxRows}

HEADER == <<OTHER_VALUE, OTHER_VALUE>>
SampleSheets ==
    {<<>>,
     <<HEADER, <<STORED_EMAIL, OTHER_VALUE>>>>,
     <<HEADER, <<>>, <<OTHER_VALUE, STORED_EMAIL>>>>,
     <<<<OTHER_VALUE>>, <<OTHER_VALUE, STORED_EMAIL>>>>}

Bodies(strings) ==
    {NoBody, NotJson, JsonArray, JsonNull}
        \cup {Object(v) : v \in {Missing, Null, Number(0), Number(5)}}
        \cup {Object(String(s)) : s \in strings}

Keys == {TARGET_EMAIL, OTHER_VALUE}

AgentRequests == {[endpoint |-> AGENT, body |-> b] : b \in Bodies({<<>>, BLANK} \cup Keys)}
ContentRequests == {[endpoint |-> CONTENT, body |-> b] : b \in Bodies({<<>>, BLANK, LINK})}
ShareRequests ==
    {[endpoint |-> SHARE, body |-> b] :
        b \in Bodies({<<>>, BLANK, URL_WITH_STATUS, URL_NO_STATUS, URL_STATUS_NO_DIGITS})}
WalletRequests ==
    {[endpoint |-> WALLET, body |-> Query(v)] :
        v \in {Missing} \cup {String(s) : s \in {<<>>, BLANK} \cup Keys}}
AllRequests == AgentRequests \cup ContentRequests \cup ShareRequests \cup WalletRequests

\* Request 1 arrives; no other request is in flight.
OneRequest(candidates) ==
    /\ request \in [Requests -> candidates \cup {NoRequest}]
    /\ request[1] \in candidates
    /\ \A r \in Requests \ {1} : request[r] = NoRequest
    /\ pc = [r \in Requests |-> IF r = 1 THEN "received" ELSE "absent"]
    /\ loop = 0
    /\ calls = [r \in Requests |-> [sheets |-> 0, http |-> 0]]
    /\ api = [r \in Requests |-> <<>>]
    /\ lookup = [r \in Requests |-> NotCalled]
    /\ fetched = [r \in Requests |-> NotCalled]
    /\ response = [r \in Requests |-> NoResponse]

ColumnIdle ==
    /\ letter = <<>>
    /\ index = NotCalled

(***************************************************************************)
(* Spec: one request of any kind, under any configuration.                 *)
(***************************************************************************)
Init ==
    /\ ColumnIdle
    /\ sheets_service \in BOOLEAN
    /\ AGENT_SHEET_ID \in {Unset, "agent-sheet"}
    /\ WALLET_SHEET_ID \in {Unset, "wallet-sheet"}
    /\ AGENT_EMAIL_COLUMN \in {<<"A">>, <<"b">>}
    /\ WALLET_ADDRESS_COLUMN \in {<<"B">>, <<"1">>}
    /\ sheet \in SampleSheets
    /\ OneRequest(AllRequests)

Next ==
    \E r \in Requests :
        \/ verify_agent_application(r)
        \/ verify_wallet(r)
        \/ verify_content(r)
        \/ verify_share_nft(r)
        \/ spreadsheets_get(r)
        \/ spreadsheets_values_get(r)
        \/ client_get(r)

Spec == Init /\ [][Next]_vars

(***************************************************************************)
(* SpecLookup: one sheet request with a configured service, over every     *)
(* table of at most MaxRows rows of at most MaxCols cells.                 *)
(***************************************************************************)
LookupColumns == {<<"A">>, <<"b">>, <<"1">>}

LookupRequests ==
    {[endpoint |-> AGENT, body |-> Object(String(s))] : s \in Keys}
        \cup {[endpoint |-> WALLET, body |-> Query(String(s))] : s \in Keys}

InitLookup ==
    /\ ColumnIdle
    /\ sheets_service = TRUE
    /\ AGENT_SHEET_ID = "agent-sheet"
    /\ WALLET_SHEET_ID = "wallet-sheet"
    /\ AGENT_EMAIL_COLUMN \in LookupColumns
    /\ WALLET_ADDRESS_COLUMN = AGENT_EMAIL_COLUMN
    /\ sheet \in Tables
    /\ OneRequest(LookupRequests)

NextLookup ==
    \E r \in Requests :
        \/ verify_agent_application(r)
        \/ verify_wallet(r)
        \/ spreadsheets_get(r)
        \/ spreadsheets_values_get(r)

SpecLookup == InitLookup /\ [][NextLookup]_vars

(***************************************************************************)
(* LiveSpec: NReq requests in flight at once on the one event loop.        *)
(* Fairness: the event loop runs every coroutine that is ready, and        *)
(* client.get ends within its timeout (timeout=15, lines 224, 267).  The   *)
(* spreadsheet calls (lines 87, 91-94) are given no timeout by the code:   *)
(* they return when the service answers, which nothing guarantees.         *)
(***************************************************************************)
LiveRequests ==
    {[endpoint |-> AGENT, body |-> Object(String(TARGET_EMAIL))],
     [endpoint |-> WALLET, body |-> Query(String(OTHER_VALUE))],
     [endpoint |-> CONTENT, body |-> Object(String(LINK))],
     [endpoint |-> SHARE, body |-> Object(String(URL_WITH_STATUS))]}

InitLive ==
    /\ ColumnIdle
    /\ sheets_service = TRUE
    /\ AGENT_SHEET_ID = "agent-sheet"
    /\ WALLET_SHEET_ID = "wallet-sheet"
    /\ AGENT_EMAIL_COLUMN = <<"A">>
    /\ WALLET_ADDRESS_COLUMN = <<"B">>
    /\ sheet = <<HEADER, <<STORED_EMAIL, OTHER_VALUE>>>>
    /\ request \in [Requests -> LiveRequests]
    /\ pc = [r \in Requests |-> "received"]
    /\ loop = 0
    /\ calls = [r \in Requests |-> [sheets |-> 0, http |-> 0]]
    /\ api = [r \in Requests |-> <<>>]
    /\ lookup = [r \in Requests |-> NotCalled]
    /\ fetched = [r \in Requests |-> NotCalled]
    /\ response = [r \in Requests |-> NoResponse]

EventLoopStep(r) ==
    \/ verify_agent_application(r)
    \/ verify_wallet(r)
    \/ verify_content(r)
    \/ verify_share_nft(r)
    \/ client_get(r)

LiveSpec ==
    /\ InitLive
    /\ [][Next]_vars
    /\ \A r \in Requests : WF_vars(EventLoopStep(r))

(***************************************************************************)
(* Properties.                                                             *)
(***************************************************************************)
Done(r) == pc[r] = "done"
IsSheet(r) == request[r].endpoint \in {AGENT, WALLET}
IsContent(r) == request[r].endpoint \in {CONTENT, SHARE}
IsEnvelope(r) == response[r].kind = "envelope"
BothCallsSucceeded(r) == api[r] = <<"ok", "ok">>
SomeCallFailed(r) == \E i \in 1..Len(api[r]) : api[r][i] # "ok"

\* The string the caller sent as email / address, when it sent a string.
SentString(r) == request[r].body.json \in {"object", "query"} /\ request[r].body.value.t = "string"
Sent(r) == request[r].body.value.s

Trimmed(s) == strip(s)
TrimmedLower(s) == lower(strip(s))

ColumnOf(r) == IF request[r].endpoint = AGENT THEN AGENT_EMAIL_COLUMN ELSE WALLET_ADDRESS_COLUMN
SheetIdOf(r) == IF request[r].endpoint = AGENT THEN AGENT_SHEET_ID ELSE WALLET_SHEET_ID
ColumnResolved(r) == column_letter_to_index(ColumnOf(r)).kind = "return"
ColumnIndexOf(r) == column_letter_to_index(ColumnOf(r)).value

\* Some data row (a row after row 0) holds, at the resolved column index, a
\* cell equal to the target once both are trimmed and lowercased.
SomeDataRowMatches(r) ==
    /\ ColumnResolved(r)
    /\ \E i \in 2..Len(sheet) :
        /\ Len(sheet[i]) > ColumnIndexOf(r)
        /\ TrimmedLower(sheet[i][ColumnIndexOf(r) + 1]) = TrimmedLower(Sent(r))

\* The header row (row 0) is wider than the resolved column index.
HeaderCoversColumn(r) ==
    /\ sheet # <<>>
    /\ ColumnResolved(r)
    /\ ColumnIndexOf(r) < Len(sheet[1])

\* C2 as stated: when both spreadsheet calls succeed, the lookup returns true
\* if and only if some data row holds the target (trimmed, lowercased) at the
\* resolved column index.
C2_FoundIffSomeDataRowMatches ==
    \A r \in Requests :
        (Done(r) /\ IsSheet(r) /\ BothCallsSucceeded(r)) =>
            /\ lookup[r].kind = "return"
            /\ lookup[r].value <=> SomeDataRowMatches(r)

\* C2 amended: when both spreadsheet calls succeed, the lookup returns true
\* if and only if the header row is wider than the resolved column index and
\* some data row holds the target (trimmed, lowercased) at that index; an
\* empty table gives false.
C2_FoundIffHeaderCoversAndRowMatches ==
    \A r \in Requests :
        (Done(r) /\ IsSheet(r) /\ BothCallsSucceeded(r)) =>
            /\ lookup[r].kind = "return"
            /\ lookup[r].value <=> (HeaderCoversColumn(r) /\ SomeDataRowMatches(r))
            /\ sheet = <<>> => lookup[r] = Return(FALSE)

\* A match that needs both the trimming and the case folding: the target
\* "Foo@Bar.com " found as the stored " foo@bar.com".
C2_Witness ==
    \E r \in Requests :
        /\ Done(r) /\ IsSheet(r) /\ BothCallsSucceeded(r)
        /\ Sent(r) = TARGET_EMAIL
        /\ lookup[r] = Return(TRUE)
        /\ \E i \in 2..Len(sheet) :
            /\ Len(sheet[i]) > ColumnIndexOf(r)
            /\ sheet[i][ColumnIndexOf(r) + 1] = STORED_EMAIL

\* C3: the shape of the table never makes the lookup raise: with both
\* spreadsheet calls succeeded it returns, it returns false when the resolved
\* column index is at or beyond the width of the header row, and data rows no
\* longer than the column index are skipped as non-matching.
C3_TableShapeNeverRaises ==
    \A r \in Requests :
        (Done(r) /\ IsSheet(r) /\ BothCallsSucceeded(r)) =>
            /\ lookup[r].kind = "return"
            /\ IsEnvelope(r) /\ response[r].error = None
            /\ (sheet # <<>> /\ ColumnResolved(r) /\ ColumnIndexOf(r) >= Len(sheet[1]))
                    => lookup[r] = Return(FALSE)
            /\ (ColumnResolved(r) /\ \A i \in 2..Len(sheet) : Len(sheet[i]) <= ColumnIndexOf(r))
                    => lookup[r] = Return(FALSE)

\* A ragged table: a data row too short for the column is passed over and a
\* later row matches.
C3_Witness ==
    \E r \in Requests :
        /\ Done(r) /\ IsSheet(r) /\ BothCallsSucceeded(r)
        /\ HeaderCoversColumn(r)
        /\ \E i \in 2..Len(sheet) :
            /\ Len(sheet[i]) <= ColumnIndexOf(r)
            /\ \E j \in (i + 1)..Len(sheet) : Len(sheet[j]) > ColumnIndexOf(r)
        /\ lookup[r] = Return(TRUE)

\* The envelope that says "value absent": isValid false, no error, found false.
NotFoundEnvelope(r) ==
    /\ IsEnvelope(r)
    /\ response[r].error = None
    /\ response[r].result.isValid = FALSE
    /\ "details" \in DOMAIN response[r].result
    /\ "found" \in DOMAIN response[r].result.details
    /\ response[r].result.details.found = FALSE

FailedLookupIsAnError(r) ==
    SomeCallFailed(r) =>
        /\ lookup[r].kind = "raise"
        /\ IsEnvelope(r)
        /\ response[r].error # None

\* C4 as stated: a failed spreadsheet call makes the lookup raise and the
\* envelope carry an error; and a "value absent" envelope means that the scan
\* completed and no data row matched.
C4_NotFoundMeansNoRowMatched ==
    \A r \in Requests :
        (Done(r) /\ IsSheet(r)) =>
            /\ FailedLookupIsAnError(r)
            /\ NotFoundEnvelope(r) => (BothCallsSucceeded(r) /\ ~SomeDataRowMatches(r))

\* C4 amended: a failed spreadsheet call makes the lookup raise and the
\* envelope carry an error; and a "value absent" envelope means that both
\* spreadsheet calls succeeded and no data row matched in a column the header
\* row covers (an empty table, an invalid column letter or a column at or
\* beyond the header's width is answered "value absent" without a scan).
C4_NotFoundMeansNoFailure ==
    \A r \in Requests :
        (Done(r) /\ IsSheet(r)) =>
            /\ FailedLookupIsAnError(r)
            /\ NotFoundEnvelope(r) =>
                /\ BothCallsSucceeded(r)
                /\ lookup[r] = Return(FALSE)
                /\ ~(HeaderCoversColumn(r) /\ SomeDataRowMatches(r))

\* The values call fails after the metadata call succeeded.
C4_Witness ==
    \E r \in Requests :
        /\ Done(r) /\ IsSheet(r)
        /\ api[r] = <<"ok", "HttpError">>
        /\ lookup[r] = Raise("HttpError")
        /\ response[r] = Envelope([isValid |-> FALSE], "Google Sheets API error")

\* C5: whatever the body and whatever the upstream outcome, every handler
\* ends by returning the {result, error} envelope; no exception escapes.
C5_AlwaysAnEnvelope ==
    \A r \in Requests : Done(r) => IsEnvelope(r)

\* What does hold of C5: a body that is absent or not JSON, and an object
\* whose required key is missing, null, zero or a string, are answered with
\* an envelope whatever the upstream does.
EnvelopeUnlessBodyHasNoGetOrStrip ==
    \A r \in Requests :
        (Done(r) /\ (request[r].body.json \in {"absent", "invalid", "query"}
                     \/ (request[r].body.json = "object"
                         /\ request[r].body.value \notin {Number(5)})))
            => IsEnvelope(r)

\* The required input is missing or blank.
MissingOrBlank(r) ==
    /\ request[r].body.json \in {"object", "query"}
    /\ \/ request[r].body.value.t \in {"missing", "null"}
       \/ /\ request[r].body.value.t = "string"
          /\ Trimmed(request[r].body.value.s) = <<>>

\* The tweet URL of a /verify-share-nft request holds no "/status/<digits>".
NoPostId(r) ==
    /\ request[r].endpoint = SHARE
    /\ SentString(r)
    /\ extract_tweet_id_from_url(Sent(r)) = <<>>

\* C6: a request whose required input is missing or blank, or whose tweet URL
\* holds no post id, is answered with a false result and an error, and makes
\* no HTTP fetch and no spreadsheet call; the post id of
\* https://x.com/user/status/12345 is "12345", https://x.com/user has none.
C6_ValidationBeforeNetwork ==
    /\ extract_tweet_id_from_url(URL_WITH_STATUS) = <<"1", "2", "3", "4", "5">>
    /\ extract_tweet_id_from_url(URL_NO_STATUS) = <<>>
    /\ \A r \in Requests :
        (pc[r] # "absent" /\ (MissingOrBlank(r) \/ NoPostId(r))) =>
            /\ calls[r] = [sheets |-> 0, http |-> 0]
            /\ Done(r) =>
                /\ IsEnvelope(r)
                /\ response[r].result.isValid = FALSE
                /\ response[r].error # None

\* What does hold of C6: the three POST handlers validate before any call.
ValidationBeforeNetworkExceptWallet ==
    \A r \in Requests :
        (pc[r] # "absent" /\ request[r].endpoint # WALLET
         /\ (MissingOrBlank(r) \/ NoPostId(r))) =>
            /\ calls[r] = [sheets |-> 0, http |-> 0]
            /\ Done(r) =>
                /\ IsEnvelope(r)
                /\ response[r].result.isValid = FALSE
                /\ response[r].error # None

\* The caller sent a usable email / address.
ValidKey(r) == SentString(r) /\ Trimmed(Sent(r)) # <<>>

Unconfigured(r) == ~sheets_service \/ SheetIdOf(r) = Unset

ConfigurationErrors ==
    {"Google Sheets integration not configured", "Agent sheet ID not configured",
     "Wallet sheet ID not configured"}

\* C7: with the spreadsheet client unavailable or the endpoint's sheet id
\* unset, a sheet request with a valid email / address makes no spreadsheet
\* call and is answered isValid=false with a configuration error, which a
\* "not found" answer (no error, details.found=false) never carries.
C7_UnconfiguredIsAConfigurationError ==
    \A r \in Requests :
        (IsSheet(r) /\ ValidKey(r) /\ Unconfigured(r)) =>
            /\ calls[r].sheets = 0
            /\ api[r] = <<>>
            /\ Done(r) =>
                /\ IsEnvelope(r)
                /\ response[r].result = [isValid |-> FALSE]
                /\ response[r].error \in ConfigurationErrors
                /\ ~NotFoundEnvelope(r)

\* The client is built but the wallet sheet id is unset.
C7_Witness ==
    \E r \in Requests :
        /\ Done(r) /\ request[r].endpoint = WALLET /\ ValidKey(r)
        /\ sheets_service /\ WALLET_SHEET_ID = Unset
        /\ response[r] = Envelope([isValid |-> FALSE], "Wallet sheet ID not configured")

\* The page was fetched with a status below 400.
Fetched(r) == fetched[r].kind = "return" /\ fetched[r].value.status_code < 400
PageText(r) == fetched[r].value.text

ContainsAll(text, patterns) == \A p \in patterns : Contains(text, p)

SPEC_RULESET ==
    {<<"#", "a", "g", "v">>, <<"#", "t", "r", "e", "e">>, <<"#", "r", "w", "a">>,
     <<"a", "g", "v", " ", "p", "r", "o", "t", "o", "c", "o", "l">>}
CODE_RULESET ==
    {<<"a", "g", "v">>, <<"t", "r", "e", "e">>, <<"r", "w", "a">>,
     <<"@", "a", "g", "v", "p", "r", "o", "t", "o", "c", "o", "l">>}

\* C8 as stated: /verify-content answers {"point": 500} when the lowercased
\* page holds all of "#agv", "#tree", "#rwa", "agv protocol", and
\* {"point": 0} when one is missing.
C8_PointFromSpecRuleset ==
    \A r \in Requests :
        (Done(r) /\ request[r].endpoint = CONTENT /\ Fetched(r)) =>
            /\ IsEnvelope(r)
            /\ response[r].result =
                [point |-> IF ContainsAll(lower(PageText(r)), SPEC_RULESET) THEN 500 ELSE 0]

\* C8 amended: /verify-content answers {"isValid": b, "details": ...} and no
\* point, where b is true exactly when the lowercased page holds all of
\* "agv", "tree", "rwa" and "@agvprotocol"; the page "#AGV #Tree #RWA ... AGV
\* Protocol is great" is answered isValid=false (it has no "@agvprotocol"),
\* as is that page without "#RWA"; "#AGV #Tree #RWA @AGVProtocol" is valid.
C8_IsValidFromCodeRuleset ==
    \A r \in Requests :
        (Done(r) /\ request[r].endpoint = CONTENT /\ Fetched(r)) =>
            /\ IsEnvelope(r)
            /\ response[r].error = None
            /\ DOMAIN response[r].result = {"isValid", "details"}
            /\ response[r].result.isValid <=> ContainsAll(lower(PageText(r)), CODE_RULESET)
            /\ PageText(r) \in {PAGE_SPEC_EXAMPLE, PAGE_MISSING_RWA}
                    => response[r].result.isValid = FALSE
            /\ PageText(r) = PAGE_WITH_MENTION => response[r].result.isValid = TRUE

\* A page that satisfies the code's ruleset only after lowercasing.
C8_Witness ==
    \E r \in Requests :
        /\ Done(r) /\ request[r].endpoint = CONTENT /\ Fetched(r)
        /\ PageText(r) = PAGE_WITH_MENTION
        /\ response[r].result.isValid = TRUE

UnreachableResult(code) ==
    [isValid |-> FALSE, details |-> [reason |-> "unreachable", status_code |-> code]]

\* C9: a fetch that ends with a status >= 400 is answered (not raised) with a
\* failure that records that status code and no content predicate, whatever
\* the page holds; a transport exception is answered with an error envelope;
\* an answer about the content carries neither.
C9_UnreachableIsReported ==
    \A r \in Requests :
        (Done(r) /\ IsContent(r) /\ fetched[r] # NotCalled) =>
            /\ IsEnvelope(r)
            /\ (fetched[r].kind = "return" /\ fetched[r].value.status_code >= 400) =>
                    response[r].result = UnreachableResult(fetched[r].value.status_code)
            /\ fetched[r].kind = "raise" =>
                    /\ response[r].result = [isValid |-> FALSE]
                    /\ response[r].error # None
            /\ Fetched(r) =>
                    /\ response[r].error = None
                    /\ "reason" \notin DOMAIN response[r].result.details

\* Status 400 with a page that would satisfy the content predicate.
C9_Witness ==
    \E r \in Requests :
        /\ Done(r) /\ request[r].endpoint = CONTENT
        /\ fetched[r] = Return([status_code |-> 400, text |-> PAGE_WITH_MENTION])
        /\ response[r] = Envelope(UnreachableResult(400), None)

\* C10: with several requests in flight and an upstream that may never
\* answer, every request eventually receives its envelope.
C10_EveryRequestAnswered ==
    <>(\A r \in Requests : IsEnvelope(r))

\* The safety side of C10 ("no ordering dependency between requests"): a
\* request that is ready to run is never kept from running by the pending
\* network call of another request.  It fails as well: a pending
\* spreadsheet call holds the event loop.
ReadyRequestsCanRun ==
    \A r \in Requests : pc[r] \in {"received", "http_get"} => loop = 0

\* What does hold: requests that make no spreadsheet call are all answered.
ContentRequestsAnswered ==
    (\A r \in Requests : IsContent(r)) => <>(\A r \in Requests : IsEnvelope(r))

====
